---- MODULE Spec2Model ----
(***************************************************************************)
(* Sentry bootstrap of bridge-gui (SentryUtils.cpp): the cache directory,  *)
(* the protected host name, the OS label, the release string, the options  *)
(* record, the report scope and the two report helpers, together with the  *)
(* part of Qt and of the sentry-native client that these functions drive.  *)
(*                                                                         *)
(* Text is a sequence of one-character strings; names that are only ever   *)
(* compared as a whole (tag keys, DSN, messages, call names) are strings.   *)
(* A path is the sequence of its components.  An optional value is a       *)
(* sequence of length 0 or 1.  An operator that models a function of the   *)
(* source takes the machine it runs on and returns the machine it leaves,  *)
(* with what it returned in the field value.                               *)
(***************************************************************************)
EXTENDS Integers, Sequences, FiniteSets, TLC

VARIABLES
    machineHostName,  \* QSysInfo::machineHostName()
    osFamily,         \* bridgepp::os()
    goos,             \* bridgelib::goos()
    cpuArch,          \* QSysInfo::currentCpuArchitecture()
    userDataDir,      \* bridgelib::userDataDir()
    handlerPath,      \* PROJECT_CRASHPAD_HANDLER_PATH
    projectVer,       \* PROJECT_VER
    dirs,             \* the directories that exist on disk
    cacheFiles,       \* the files inside the sentry cache directory
    client,           \* sentry-native: the options it runs with and its scope
    stderrLines,      \* the lines written to standard error
    initCalls,        \* number of initSentry() calls so far
    trace,            \* the calls made by the last operation, in order
    ret               \* the last operation, its arguments and its result

vars == <<machineHostName, osFamily, goos, cpuArch, userDataDir, handlerPath, projectVer,
          dirs, cacheFiles, client, stderrLines, initCalls, trace, ret>>

env == <<machineHostName, osFamily, goos, cpuArch, userDataDir, handlerPath, projectVer>>

-----------------------------------------------------------------------------
(* Bounds of the model *)

MaxOsValue == 3
MaxInits == 2
MaxRepeat == 2

-----------------------------------------------------------------------------
(* File constants and build configuration *)

LoggerName == "bridge-gui"
CacheFolderName == "sentry_cache"
InitFailedLine == "Failed to initialize sentry\n"
MaxBreadcrumbs == 50
DefaultMaxBreadcrumbs == 100
PROJECT_DSN_SENTRY == "https://key@sentry.invalid/1"
PROJECT_BUILD_ENV == "dev"
PROJECT_FULL_NAME == <<"P", "r", "o", "t", "o", "n", " ", "M", "a", "i", "l", " ", "B", "r", "i", "d", "g", "e">>
PROJECT_REVISION == <<"0", "a", "1", "b", "2", "c", "3">>

OS_Linux == 0
OS_MacOS == 1
OS_Windows == 2

Str_macos == <<"m", "a", "c", "o", "s">>
Str_windows == <<"w", "i", "n", "d", "o", "w", "s">>
Str_linux == <<"l", "i", "n", "u", "x">>
VersionTemplate == <<"%", "1", "-", "b", "r", "i", "d", "g", "e", "@", "%", "2">>
HexDigits == <<"0", "1", "2", "3", "4", "5", "6", "7", "8", "9", "a", "b", "c", "d", "e", "f">>

-----------------------------------------------------------------------------
(* Text: QString and QByteArray *)

\* The code point of a character; "U+00E9" stands for the one character e-acute.
CodePoint(c) ==
    CASE c = "h" -> 104
      [] c = "U+00E9" -> 233
      [] c = "U+20AC" -> 8364
      [] OTHER -> 63

\* QString::toUtf8 of one character of the Basic Multilingual Plane.
Utf8Char(cp) ==
    IF cp < 128 THEN <<cp>>
    ELSE IF cp < 2048 THEN <<192 + (cp \div 64), 128 + (cp % 64)>>
    ELSE <<224 + (cp \div 4096), 128 + ((cp \div 64) % 64), 128 + (cp % 64)>>

RECURSIVE toUtf8(_)
toUtf8(s) == IF s = <<>> THEN <<>> ELSE Utf8Char(CodePoint(Head(s))) \o toUtf8(Tail(s))

toHex_upper(b) ==
    LET digits == <<"0", "1", "2", "3", "4", "5", "6", "7", "8", "9", "A", "B", "C", "D", "E", "F">>
    IN  [i \in 1..(2 * Len(b)) |->
            IF i % 2 = 1 THEN digits[(b[(i + 1) \div 2] \div 16) + 1]
            ELSE digits[(b[i \div 2] % 16) + 1]]

\* QByteArray::toHex: two lowercase hex digits per byte, high nibble first.
toHex(b) ==
    [i \in 1..(2 * Len(b)) |->
        IF i % 2 = 1 THEN HexDigits[(b[(i + 1) \div 2] \div 16) + 1]
        ELSE HexDigits[(b[i \div 2] % 16) + 1]]

DigitValue(c) ==
    CASE c = "0" -> 0 [] c = "1" -> 1 [] c = "2" -> 2 [] c = "3" -> 3 [] c = "4" -> 4
      [] c = "5" -> 5 [] c = "6" -> 6 [] c = "7" -> 7 [] c = "8" -> 8 [] c = "9" -> 9
      [] OTHER -> -1

\* The digits of a place marker from position j on: <<number, position after it>>.
RECURSIVE ScanDigits(_, _, _)
ScanDigits(s, j, acc) ==
    IF j <= Len(s) /\ DigitValue(s[j]) >= 0
    THEN ScanDigits(s, j + 1, acc * 10 + DigitValue(s[j]))
    ELSE <<acc, j>>

\* getEscape of qstring.cpp: the place marker at the '%' of position i, as
\* <<number, position after it>>, or <<-1, i>> when there is none.
EscapeAt(s, i, j) ==
    IF j <= Len(s) /\ DigitValue(s[j]) >= 0
    THEN ScanDigits(s, j + 1, DigitValue(s[j]))
    ELSE <<-1, i>>

EscapeUpTo(r, i, maxNumber) == IF r[1] <= maxNumber THEN r ELSE <<-1, i>>

getEscape(s, i) ==
    EscapeUpTo(EscapeAt(s, i, IF i + 1 <= Len(s) /\ s[i + 1] = "L" THEN i + 2 ELSE i + 1), i, 999)

\* parseMultiArgFormatString: the pattern cut into literal parts (number -1)
\* and place markers.
RECURSIVE ParseParts(_, _, _, _)
ParseStep(s, i, last, parts, e) ==
    IF e[1] # -1
    THEN ParseParts(s, e[2], e[2],
           (IF last # i
            THEN Append(parts, [text |-> SubSeq(s, last, i - 1), number |-> -1])
            ELSE parts)
           \o <<[text |-> SubSeq(s, i, e[2] - 1), number |-> e[1]]>>)
    ELSE ParseParts(s, i + 1, last, parts)

ParseParts(s, i, last, parts) ==
    IF i >= Len(s)
    THEN IF last <= Len(s)
         THEN Append(parts, [text |-> SubSeq(s, last, Len(s)), number |-> -1])
         ELSE parts
    ELSE ParseStep(s, i, last, parts, IF s[i] = "%" THEN getEscape(s, i) ELSE <<-1, i>>)

\* makeArgIndexToPlaceholderMap: the distinct marker numbers, ascending.
Least(S) == CHOOSE n \in S : \A k \in S : n <= k

RECURSIVE SortedNumbers(_)
SortedNumbers(S) ==
    IF S = {} THEN <<>> ELSE <<Least(S)>> \o SortedNumbers(S \ {Least(S)})

\* makeArgIndexToPlaceholderMap, cut to the number of arguments.
ArgIndexToPlaceholderMap(parts, numArgs) ==
    SubSeq(SortedNumbers({parts[k].number : k \in DOMAIN parts} \ {-1}), 1, numArgs)

\* resolveStringRefs: the text a part stands for.
ResolvePart(p, map, args) ==
    IF \E k \in DOMAIN map : map[k] = p.number
    THEN args[CHOOSE k \in DOMAIN map : map[k] = p.number]
    ELSE p.text

RECURSIVE JoinParts(_, _, _)
JoinParts(parts, map, args) ==
    IF parts = <<>> THEN <<>>
    ELSE ResolvePart(Head(parts), map, args) \o JoinParts(Tail(parts), map, args)

ArgToQString(parts, args) ==
    JoinParts(parts, ArgIndexToPlaceholderMap(parts, Len(args)), args)

\* QString::arg with several arguments: the markers with the lowest numbers
\* are replaced by the arguments, all in one pass over the pattern.
multiArg(pattern, args) == ArgToQString(ParseParts(pattern, 1, 1, <<>>), args)

-----------------------------------------------------------------------------
(* QCryptographicHash::Sha256 (FIPS 180-4).  A 32-bit word is the pair of  *)
(* its 16-bit halves <<high, low>>.                                        *)

XorNibble == <<
    <<0, 1, 2, 3, 4, 5, 6, 7, 8, 9, 10, 11, 12, 13, 14, 15>>,
    <<1, 0, 3, 2, 5, 4, 7, 6, 9, 8, 11, 10, 13, 12, 15, 14>>,
    <<2, 3, 0, 1, 6, 7, 4, 5, 10, 11, 8, 9, 14, 15, 12, 13>>,
    <<3, 2, 1, 0, 7, 6, 5, 4, 11, 10, 9, 8, 15, 14, 13, 12>>,
    <<4, 5, 6, 7, 0, 1, 2, 3, 12, 13, 14, 15, 8, 9, 10, 11>>,
    <<5, 4, 7, 6, 1, 0, 3, 2, 13, 12, 15, 14, 9, 8, 11, 10>>,
    <<6, 7, 4, 5, 2, 3, 0, 1, 14, 15, 12, 13, 10, 11, 8, 9>>,
    <<7, 6, 5, 4, 3, 2, 1, 0, 15, 14, 13, 12, 11, 10, 9, 8>>,
    <<8, 9, 10, 11, 12, 13, 14, 15, 0, 1, 2, 3, 4, 5, 6, 7>>,
    <<9, 8, 11, 10, 13, 12, 15, 14, 1, 0, 3, 2, 5, 4, 7, 6>>,
    <<10, 11, 8, 9, 14, 15, 12, 13, 2, 3, 0, 1, 6, 7, 4, 5>>,
    <<11, 10, 9, 8, 15, 14, 13, 12, 3, 2, 1, 0, 7, 6, 5, 4>>,
    <<12, 13, 14, 15, 8, 9, 10, 11, 4, 5, 6, 7, 0, 1, 2, 3>>,
    <<13, 12, 15, 14, 9, 8, 11, 10, 5, 4, 7, 6, 1, 0, 3, 2>>,
    <<14, 15, 12, 13, 10, 11, 8, 9, 6, 7, 4, 5, 2, 3, 0, 1>>,
    <<15, 14, 13, 12, 11, 10, 9, 8, 7, 6, 5, 4, 3, 2, 1, 0>>
>>

AndNibble == <<
    <<0, 0, 0, 0, 0, 0, 0, 0, 0, 0, 0, 0, 0, 0, 0, 0>>,
    <<0, 1, 0, 1, 0, 1, 0, 1, 0, 1, 0, 1, 0, 1, 0, 1>>,
    <<0, 0, 2, 2, 0, 0, 2, 2, 0, 0, 2, 2, 0, 0, 2, 2>>,
    <<0, 1, 2, 3, 0, 1, 2, 3, 0, 1, 2, 3, 0, 1, 2, 3>>,
    <<0, 0, 0, 0, 4, 4, 4, 4, 0, 0, 0, 0, 4, 4, 4, 4>>,
    <<0, 1, 0, 1, 4, 5, 4, 5, 0, 1, 0, 1, 4, 5, 4, 5>>,
    <<0, 0, 2, 2, 4, 4, 6, 6, 0, 0, 2, 2, 4, 4, 6, 6>>,
    <<0, 1, 2, 3, 4, 5, 6, 7, 0, 1, 2, 3, 4, 5, 6, 7>>,
    <<0, 0, 0, 0, 0, 0, 0, 0, 8, 8, 8, 8, 8, 8, 8, 8>>,
    <<0, 1, 0, 1, 0, 1, 0, 1, 8, 9, 8, 9, 8, 9, 8, 9>>,
    <<0, 0, 2, 2, 0, 0, 2, 2, 8, 8, 10, 10, 8, 8, 10, 10>>,
    <<0, 1, 2, 3, 0, 1, 2, 3, 8, 9, 10, 11, 8, 9, 10, 11>>,
    <<0, 0, 0, 0, 4, 4, 4, 4, 8, 8, 8, 8, 12, 12, 12, 12>>,
    <<0, 1, 0, 1, 4, 5, 4, 5, 8, 9, 8, 9, 12, 13, 12, 13>>,
    <<0, 0, 2, 2, 4, 4, 6, 6, 8, 8, 10, 10, 12, 12, 14, 14>>,
    <<0, 1, 2, 3, 4, 5, 6, 7, 8, 9, 10, 11, 12, 13, 14, 15>>
>>

Bitwise16(t, a, b) ==
      t[(a \div 4096) + 1][(b \div 4096) + 1] * 4096
    + t[((a \div 256) % 16) + 1][((b \div 256) % 16) + 1] * 256
    + t[((a \div 16) % 16) + 1][((b \div 16) % 16) + 1] * 16
    + t[(a % 16) + 1][(b % 16) + 1]

WXor(u, v) == <<Bitwise16(XorNibble, u[1], v[1]), Bitwise16(XorNibble, u[2], v[2])>>
WAnd(u, v) == <<Bitwise16(AndNibble, u[1], v[1]), Bitwise16(AndNibble, u[2], v[2])>>
WNot(u) == <<65535 - u[1], 65535 - u[2]>>
WAdd(u, v) ==
    <<(u[1] + v[1] + ((u[2] + v[2]) \div 65536)) % 65536, (u[2] + v[2]) % 65536>>

\* Rotation to the right by k < 16 bits, p = 2^k and q = 2^(16-k).
Rotr16(y, p, q) == <<(y[1] \div p) + (y[2] % p) * q, (y[2] \div p) + (y[1] % p) * q>>

Rotr(u, n) ==
    Rotr16(IF n >= 16 THEN <<u[2], u[1]>> ELSE u, 2 ^ (n % 16), 2 ^ (16 - (n % 16)))

Shr16(u, p, q) == <<u[1] \div p, (u[2] \div p) + (u[1] % p) * q>>

Shr(u, n) ==
    IF n >= 16 THEN <<0, u[1] \div (2 ^ (n - 16))>> ELSE Shr16(u, 2 ^ n, 2 ^ (16 - n))

ShaK == <<
    <<17034, 12184>>, <<28983, 17553>>, <<46528, 64463>>, <<59829, 56229>>,
    <<14678, 49755>>, <<23025, 4593>>, <<37439, 33444>>, <<43804, 24277>>,
    <<55303, 43672>>, <<4739, 23297>>, <<9265, 34238>>, <<21772, 32195>>,
    <<29374, 23924>>, <<32990, 45566>>, <<39900, 1703>>, <<49563, 61812>>,
    <<58523, 27073>>, <<61374, 18310>>, <<4033, 40390>>, <<9228, 41420>>,
    <<11753, 11375>>, <<19060, 33962>>, <<23728, 43484>>, <<30457, 35034>>,
    <<38974, 20818>>, <<43057, 50797>>, <<45059, 10184>>, <<48985, 32711>>,
    <<50912, 3059>>, <<54695, 37191>>, <<1738, 25425>>, <<5161, 10599>>,
    <<10167, 2693>>, <<11803, 8504>>, <<19756, 28156>>, <<21304, 3347>>,
    <<25866, 29524>>, <<30314, 2747>>, <<33218, 51502>>, <<37490, 11397>>,
    <<41663, 59553>>, <<43034, 26187>>, <<49739, 35696>>, <<51052, 20899>>,
    <<53650, 59417>>, <<54937, 1572>>, <<62478, 13701>>, <<4202, 41072>>,
    <<6564, 49430>>, <<7735, 27656>>, <<10056, 30540>>, <<13488, 48309>>,
    <<14620, 3251>>, <<20184, 43594>>, <<23452, 51791>>, <<26670, 28659>>,
    <<29839, 33518>>, <<30885, 25455>>, <<33992, 30740>>, <<36039, 520>>,
    <<37054, 65530>>, <<42064, 27883>>, <<48889, 41975>>, <<50801, 30962>>
>>

ShaH0 == <<
    <<27145, 58983>>, <<47975, 44677>>, <<15470, 62322>>, <<42319, 62778>>,
    <<20750, 21119>>, <<39685, 26764>>, <<8067, 55723>>, <<23520, 52505>>
>>

Ch(e, f, g) == WXor(WAnd(e, f), WAnd(WNot(e), g))
Maj(a, b, c) == WXor(WXor(WAnd(a, b), WAnd(a, c)), WAnd(b, c))
BigSigma0(a) == WXor(WXor(Rotr(a, 2), Rotr(a, 13)), Rotr(a, 22))
BigSigma1(e) == WXor(WXor(Rotr(e, 6), Rotr(e, 11)), Rotr(e, 25))
SmallSigma0(u) == WXor(WXor(Rotr(u, 7), Rotr(u, 18)), Shr(u, 3))
SmallSigma1(u) == WXor(WXor(Rotr(u, 17), Rotr(u, 19)), Shr(u, 10))

\* The message, a 1 bit, zeros up to 56 mod 64, and the bit length on 8 bytes.
BitLength(n) ==
    <<0, 0, 0, 0, (n \div 2097152) % 256, (n \div 8192) % 256, (n \div 32) % 256, (n * 8) % 256>>

ShaPad(bytes) ==
    bytes \o <<128>> \o [i \in 1..((119 - (Len(bytes) % 64)) % 64) |-> 0] \o BitLength(Len(bytes))

\* Word i of block b of the padded message p, big-endian.
BlockWord(p, o) == <<p[o + 1] * 256 + p[o + 2], p[o + 3] * 256 + p[o + 4]>>
BlockWords(p, b) == [i \in 1..16 |-> BlockWord(p, (b - 1) * 64 + (i - 1) * 4)]

ScheduleWord(w, t) ==
    WAdd(WAdd(SmallSigma1(w[t - 2]), w[t - 7]), WAdd(SmallSigma0(w[t - 15]), w[t - 16]))

RECURSIVE Schedule(_)
Schedule(w) == IF Len(w) >= 64 THEN w ELSE Schedule(Append(w, ScheduleWord(w, Len(w) + 1)))

RoundT1(s, w, t) ==
    WAdd(WAdd(WAdd(s[8], BigSigma1(s[5])), WAdd(Ch(s[5], s[6], s[7]), ShaK[t])), w[t])
RoundT2(s) == WAdd(BigSigma0(s[1]), Maj(s[1], s[2], s[3]))
RoundOut(s, t1, t2) == <<WAdd(t1, t2), s[1], s[2], s[3], WAdd(s[4], t1), s[5], s[6], s[7]>>
Round(s, w, t) == RoundOut(s, RoundT1(s, w, t), RoundT2(s))

RECURSIVE Rounds(_, _, _)
Rounds(s, w, t) ==
    IF t > 64 \/ Len(s) # 8 THEN s ELSE Rounds(Round(s, w, t), w, t + 1)

AddState(h, s) ==
    <<WAdd(h[1], s[1]), WAdd(h[2], s[2]), WAdd(h[3], s[3]), WAdd(h[4], s[4]),
      WAdd(h[5], s[5]), WAdd(h[6], s[6]), WAdd(h[7], s[7]), WAdd(h[8], s[8])>>

Compress(h, w) == AddState(h, Rounds(h, Schedule(w), 1))

RECURSIVE ShaBlocks(_, _, _)
ShaBlocks(h, p, b) ==
    IF b * 64 > Len(p) \/ Len(h) # 8 THEN h
    ELSE ShaBlocks(Compress(h, BlockWords(p, b)), p, b + 1)

WordBytes(u) == <<u[1] \div 256, u[1] % 256, u[2] \div 256, u[2] % 256>>

\* The digest: the eight words of the final state, big-endian, as 32 bytes.
DigestBytes(h) ==
    WordBytes(h[1]) \o WordBytes(h[2]) \o WordBytes(h[3]) \o WordBytes(h[4])
      \o WordBytes(h[5]) \o WordBytes(h[6]) \o WordBytes(h[7]) \o WordBytes(h[8])

Sha256(bytes) == DigestBytes(ShaBlocks(ShaH0, ShaPad(bytes), 1))


-----------------------------------------------------------------------------
(* Input domains *)

Hostnames == {<<>>, <<"h">>, <<"h", "U+00E9", "U+20AC">>}
OsValues == 0..MaxOsValue
UserDataDirs == {<<"home", "bridge-v3">>}
HandlerPaths == {"", "/opt/bridge/crashpad_handler"}
Versions == {<<"1", ".", "2", ".", "3">>, <<"%", "1">>, <<"3", ".", "%", "2", ".", "%", "1">>}
ProjectVersions == {<<"3", ".", "%", "2", ".", "%", "1">>}
Dsns == {PROJECT_DSN_SENTRY, ""}
Levels == {-1, 0, 3}
Messages == {"message"}
ExceptionTypes == {"Exception"}
ExceptionValues == {"what"}
NilUuid == "00000000-0000-0000-0000-000000000000"
Uuids == {"4c0a1e2b-0000-4000-8000-000000000001", "4c0a1e2b-0000-4000-8000-000000000002"}
InitResults == {0, 1}
OldCacheFiles == {"last_crash"}

\* runtime.GOOS of the platform the bridge was built for.
GoosOf(o) ==
    IF o = OS_MacOS THEN <<"d", "a", "r", "w", "i", "n">>
    ELSE IF o = OS_Windows THEN <<"w", "i", "n", "d", "o", "w", "s">>
    ELSE IF o = OS_Linux THEN <<"l", "i", "n", "u", "x">>
    ELSE <<"f", "r", "e", "e", "b", "s", "d">>

\* The CPU the platform runs on.
ArchOf(o) == IF o = OS_MacOS THEN <<"a", "r", "m", "6", "4">> ELSE <<"x", "8", "6", "_", "6", "4">>

-----------------------------------------------------------------------------
(* The machine an operation runs on: the disk, standard error, the client  *)
(* and the value the last call returned or the object under construction.  *)
(* Every call is appended to the trace.                                    *)

Machine ==
    [dirs |-> dirs, cacheFiles |-> cacheFiles, client |-> client,
     stderrLines |-> stderrLines, trace |-> <<>>, value |-> "void"]

Call(m, name, args, result) ==
    [m EXCEPT !.trace = Append(@, [call |-> name, args |-> args, result |-> result])]

Return(m, v) == [m EXCEPT !.value = v]

Prefixes(path) == {SubSeq(path, 1, n) : n \in 1..Len(path)}

\* QDir(dir).absoluteFilePath(fileName), dir absolute and fileName relative.
absoluteFilePath(dir, fileName) == Append(dir, fileName)

mkpath_recreate(m, path, ok) ==
    Call([m EXCEPT !.dirs = IF ok THEN @ \cup Prefixes(path) ELSE @,
                   !.cacheFiles = IF ok THEN {} ELSE @],
         "QDir::mkpath", <<path>>, ok)

\* QDir().mkpath(path): creates the directory and its missing parents; true when
\* the directory exists afterwards.  ok is whether the file system lets it.
mkpath(m, path, ok) ==
    IF path \in m.dirs THEN Call(m, "QDir::mkpath", <<path>>, TRUE)
    ELSE IF ok THEN Call([m EXCEPT !.dirs = @ \cup Prefixes(path)], "QDir::mkpath", <<path>>, TRUE)
    ELSE Call(m, "QDir::mkpath", <<path>>, FALSE)

\* The path of the cache folder.
CachePath == absoluteFilePath(userDataDir, CacheFolderName)

sentryCacheDir(m, ok) ==
    Return(mkpath(Call(m, "sentryCacheDir", <<>>, "void"), CachePath, ok), CachePath)

\* getProtectedHostname() on a machine called hostname.
getProtectedHostnameOf(hostname) == toHex(Sha256(toUtf8(hostname)))

\* The values of getProtectedHostnameOf over the host names of the model.
ProtectedHostnames == {<<h, getProtectedHostnameOf(h)>> : h \in Hostnames}

getProtectedHostname == (CHOOSE p \in ProtectedHostnames : p[1] = machineHostName)[2]

getApiOS_noDefault ==
    CASE osFamily = OS_MacOS -> Str_macos
      [] osFamily = OS_Windows -> Str_windows
      [] osFamily = OS_Linux -> Str_linux
      [] OTHER -> <<>>

getApiOS ==
    CASE osFamily = OS_MacOS -> Str_macos
      [] osFamily = OS_Windows -> Str_windows
      [] osFamily = OS_Linux -> Str_linux
      [] OTHER -> Str_linux

appVersion_concat(version) ==
    multiArg(SubSeq(VersionTemplate, 1, Len(VersionTemplate) - 2) \o version, <<getApiOS>>)

appVersion(version) == multiArg(VersionTemplate, <<getApiOS, version>>)

-----------------------------------------------------------------------------
(* sentry-native *)

NoOptions == <<>>
NoUser == <<>>
EmptyScopeClient == [options |-> NoOptions, tags |-> <<>>, user |-> NoUser]

\* The defaults of a fresh options object.
DefaultOptions ==
    [dsn |-> "", database_path |-> <<".sentry-native">>, release |-> <<>>,
     max_breadcrumbs |-> DefaultMaxBreadcrumbs, environment |-> "", handler_path |-> <<>>]

\* The setters act on the options object held in m.value.
sentry_options_new(m) == Return(Call(m, "sentry_options_new", <<>>, "void"), DefaultOptions)

sentry_options_set_dsn(m, dsn) ==
    [Call(m, "sentry_options_set_dsn", <<dsn>>, "void") EXCEPT !.value.dsn = dsn]

sentry_options_set_database_path(m, path) ==
    [Call(m, "sentry_options_set_database_path", <<path>>, "void") EXCEPT
        !.value.database_path = path]

sentry_options_set_release(m, release) ==
    [Call(m, "sentry_options_set_release", <<release>>, "void") EXCEPT
        !.value.release = release]

sentry_options_set_max_breadcrumbs(m, maxBreadcrumbs) ==
    [Call(m, "sentry_options_set_max_breadcrumbs", <<maxBreadcrumbs>>, "void") EXCEPT
        !.value.max_breadcrumbs = maxBreadcrumbs]

sentry_options_set_environment(m, environment) ==
    [Call(m, "sentry_options_set_environment", <<environment>>, "void") EXCEPT
        !.value.environment = environment]

sentry_options_set_handler_path(m, path) ==
    [Call(m, "sentry_options_set_handler_path", <<path>>, "void") EXCEPT
        !.value.handler_path = <<path>>]

SetByKey_append(obj, key, value) == Append(obj, <<key, value>>)

\* sentry_value_set_by_key on the list of <<key, value>> pairs of an object.
SetByKey(obj, key, value) ==
    IF \E i \in DOMAIN obj : obj[i][1] = key
    THEN [i \in DOMAIN obj |-> IF obj[i][1] = key THEN <<key, value>> ELSE obj[i]]
    ELSE Append(obj, <<key, value>>)

sentry_set_tag(m, key, value) ==
    [Call(m, "sentry_set_tag", <<key, value>>, "void") EXCEPT
        !.client.tags = SetByKey(@, key, value)]

sentry_set_user(m, user) ==
    [Call(m, "sentry_set_user", <<user>>, "void") EXCEPT !.client.user = <<user>>]

\* sentry_init on the options in m.value: closes the running client, which
\* drops its scope, and starts one with the options when result is 0; then the
\* database directory exists.  Returns result.
sentry_init(m, result) ==
    Return([Call(m, "sentry_init", <<m.value>>, result) EXCEPT
               !.client = IF result = 0
                          THEN [EmptyScopeClient EXCEPT !.options = <<m.value>>]
                          ELSE EmptyScopeClient,
               !.dirs = IF result = 0 THEN @ \cup Prefixes(m.value.database_path) ELSE @],
           result)

\* The setters of an event act on the event held in m.value.
sentry_value_new_message_event(m, level, logger, message) ==
    Return(Call(m, "sentry_value_new_message_event", <<level, logger, message>>, "void"),
           [level |-> level, logger |-> logger, message |-> message, exceptions |-> <<>>])

sentry_value_new_exception(type, value) == [type |-> type, value |-> value]

sentry_event_add_exception(m, exception) ==
    [Call(m, "sentry_event_add_exception", <<exception>>, "void") EXCEPT
        !.value.exceptions = Append(@, exception)]

\* The identifier a capture returns: the one the running client gave the
\* event, or the nil identifier when no client runs and the event is dropped.
CaptureId(m, uuid) == IF m.client.options # NoOptions THEN uuid ELSE NilUuid

\* sentry_capture_event on the event in m.value.
sentry_capture_event(m, uuid) ==
    Return(Call(m, "sentry_capture_event", <<m.value>>, CaptureId(m, uuid)), CaptureId(m, uuid))

-----------------------------------------------------------------------------
(* SentryUtils.cpp *)

setSentryReportScope_rawHostname(m) ==
    LET m0 == Call(m, "setSentryReportScope", <<>>, "void")
        m1 == sentry_set_tag(m0, "OS", goos)
        m2 == sentry_set_tag(m1, "Client", PROJECT_FULL_NAME)
        m3 == sentry_set_tag(m2, "Version", PROJECT_REVISION)
        m4 == sentry_set_tag(m3, "HostArch", cpuArch)
        m5 == sentry_set_tag(m4, "server_name", machineHostName)
    IN  Return(sentry_set_user(m5, SetByKey(<<>>, "id", getProtectedHostname)), "void")

setSentryReportScope(m) ==
    LET m0 == Call(m, "setSentryReportScope", <<>>, "void")
        m1 == sentry_set_tag(m0, "OS", goos)
        m2 == sentry_set_tag(m1, "Client", PROJECT_FULL_NAME)
        m3 == sentry_set_tag(m2, "Version", PROJECT_REVISION)
        m4 == sentry_set_tag(m3, "HostArch", cpuArch)
        m5 == sentry_set_tag(m4, "server_name", getProtectedHostname)
    IN  Return(sentry_set_user(m5, SetByKey(<<>>, "id", getProtectedHostname)), "void")

newSentryOptions_defaultBreadcrumbs(m, sentryDNS, cacheDir) ==
    LET o0 == sentry_options_new(Call(m, "newSentryOptions", <<sentryDNS, cacheDir>>, "void"))
        o1 == sentry_options_set_dsn(o0, sentryDNS)
        o2 == sentry_options_set_database_path(o1, cacheDir)
        o3 == sentry_options_set_release(o2, appVersion(projectVer))
    IN  sentry_options_set_environment(o3, PROJECT_BUILD_ENV)

newSentryOptions(m, sentryDNS, cacheDir) ==
    LET o0 == sentry_options_new(Call(m, "newSentryOptions", <<sentryDNS, cacheDir>>, "void"))
        o1 == sentry_options_set_dsn(o0, sentryDNS)
        o2 == sentry_options_set_database_path(o1, cacheDir)
        o3 == sentry_options_set_release(o2, appVersion(projectVer))
        o4 == sentry_options_set_max_breadcrumbs(o3, MaxBreadcrumbs)
    IN  sentry_options_set_environment(o4, PROJECT_BUILD_ENV)

reportSentryEvent(m, level, message, uuid) ==
    LET m0 == Call(m, "reportSentryEvent", <<level, message>>, "void")
        event == sentry_value_new_message_event(m0, level, LoggerName, message)
    IN  sentry_capture_event(event, uuid)

reportSentryException_swapped(m, level, message, exceptionType, exception, uuid) ==
    LET m0 == Call(m, "reportSentryException", <<level, message, exceptionType, exception>>, "void")
        event == sentry_value_new_message_event(m0, level, LoggerName, message)
        added == sentry_event_add_exception(event, sentry_value_new_exception(exception, exceptionType))
    IN  sentry_capture_event(added, uuid)

reportSentryException(m, level, message, exceptionType, exception, uuid) ==
    LET m0 == Call(m, "reportSentryException", <<level, message, exceptionType, exception>>, "void")
        event == sentry_value_new_message_event(m0, level, LoggerName, message)
        added == sentry_event_add_exception(event, sentry_value_new_exception(exceptionType, exception))
    IN  sentry_capture_event(added, uuid)

\* initSentry, line 81: the options for the cache directory just returned.
OptionsForCacheDir(m) == newSentryOptions(m, PROJECT_DSN_SENTRY, m.value)

\* initSentry, lines 82-83.
SetHandlerPath(m) ==
    IF handlerPath # "" THEN sentry_options_set_handler_path(m, handlerPath) ELSE m

\* initSentry, lines 85-87, after sentry_init has returned m.value.
WarnIfInitFailed(m) ==
    IF m.value # 0
    THEN [Call(m, "QTextStream(stderr)", <<InitFailedLine>>, "void") EXCEPT
             !.stderrLines = Append(@, InitFailedLine)]
    ELSE m

initSentry_returnOnFailure(m, initResult, mkpathOk) ==
    LET cacheDir == sentryCacheDir(Call(m, "initSentry", <<>>, "void"), mkpathOk)
        sentryOptions == SetHandlerPath(OptionsForCacheDir(cacheDir))
        started == WarnIfInitFailed(sentry_init(sentryOptions, initResult))
    IN  IF initResult # 0 THEN Return(started, "void") ELSE setSentryReportScope(started)

initSentry_handlerAfterInit(m, initResult, mkpathOk) ==
    LET cacheDir == sentryCacheDir(Call(m, "initSentry", <<>>, "void"), mkpathOk)
        sentryOptions == OptionsForCacheDir(cacheDir)
        started == WarnIfInitFailed(sentry_init(sentryOptions, initResult))
    IN  setSentryReportScope(IF handlerPath # ""
                             THEN Call(started, "sentry_options_set_handler_path",
                                       <<handlerPath>>, "void")
                             ELSE started)

initSentry(m, initResult, mkpathOk) ==
    LET cacheDir == sentryCacheDir(Call(m, "initSentry", <<>>, "void"), mkpathOk)
        sentryOptions == SetHandlerPath(OptionsForCacheDir(cacheDir))
        started == WarnIfInitFailed(sentry_init(sentryOptions, initResult))
    IN  setSentryReportScope(started)

-----------------------------------------------------------------------------
(* The state machine: one action per function a caller can invoke *)

Init ==
    /\ machineHostName \in Hostnames
    /\ osFamily \in OsValues
    /\ goos = GoosOf(osFamily)
    /\ cpuArch = ArchOf(osFamily)
    /\ userDataDir \in UserDataDirs
    /\ handlerPath \in HandlerPaths
    /\ projectVer \in ProjectVersions
    /\ \E old \in BOOLEAN :
          /\ dirs = Prefixes(userDataDir)
                      \cup (IF old THEN {absoluteFilePath(userDataDir, CacheFolderName)} ELSE {})
          /\ cacheFiles = IF old THEN OldCacheFiles ELSE {}
    /\ client = EmptyScopeClient
    /\ stderrLines = <<>>
    /\ initCalls = 0
    /\ trace = <<>>
    /\ ret = [op |-> "none", args |-> <<>>, value |-> "void", nth |-> 0]

\* The number of calls of op in a row, this one included, counted up to
\* MaxRepeat: MaxRepeat stands for MaxRepeat calls or more.  It is kept for
\* the functions whose successive calls are compared; the others pass 1.
Nth(op) ==
    IF ret.op # op THEN 1
    ELSE IF ret.nth < MaxRepeat THEN ret.nth + 1
    ELSE MaxRepeat

\* The machine m that the operation op(args) left becomes the state.
Finish(m, op, args, nth) ==
    /\ dirs' = m.dirs
    /\ cacheFiles' = m.cacheFiles
    /\ client' = m.client
    /\ stderrLines' = m.stderrLines
    /\ trace' = m.trace
    /\ ret' = [op |-> op, args |-> args, value |-> m.value, nth |-> nth]
    /\ UNCHANGED env

InitSentry ==
    /\ initCalls < MaxInits
    /\ \E initResult \in InitResults, mkpathOk \in BOOLEAN :
          Finish(initSentry(Machine, initResult, mkpathOk), "initSentry", <<>>, 1)
    /\ initCalls' = initCalls + 1

SetSentryReportScope ==
    /\ Finish(setSentryReportScope(Machine), "setSentryReportScope", <<>>,
              Nth("setSentryReportScope"))
    /\ UNCHANGED initCalls

ReportSentryEvent ==
    /\ \E level \in Levels, message \in Messages, uuid \in Uuids :
          Finish(reportSentryEvent(Machine, level, message, uuid),
                 "reportSentryEvent", <<level, message>>, 1)
    /\ UNCHANGED initCalls

ReportSentryException ==
    /\ \E level \in Levels, message \in Messages,
          exceptionType \in ExceptionTypes, exception \in ExceptionValues, uuid \in Uuids :
          Finish(reportSentryException(Machine, level, message, exceptionType, exception, uuid),
                 "reportSentryException", <<level, message, exceptionType, exception>>, 1)
    /\ UNCHANGED initCalls

SentryCacheDir ==
    /\ \E mkpathOk \in BOOLEAN :
          Finish(sentryCacheDir(Machine, mkpathOk), "sentryCacheDir", <<>>,
                 Nth("sentryCacheDir"))
    /\ UNCHANGED initCalls

GetProtectedHostname ==
    /\ Finish(Return(Call(Machine, "getProtectedHostname", <<>>, "void"), getProtectedHostname),
              "getProtectedHostname", <<>>, Nth("getProtectedHostname"))
    /\ UNCHANGED initCalls

GetApiOS ==
    /\ Finish(Return(Call(Machine, "getApiOS", <<>>, "void"), getApiOS), "getApiOS", <<>>, 1)
    /\ UNCHANGED initCalls

AppVersion ==
    /\ \E version \in Versions :
          Finish(Return(Call(Machine, "appVersion", <<version>>, "void"), appVersion(version)),
                 "appVersion", <<version>>, 1)
    /\ UNCHANGED initCalls

NewSentryOptions ==
    /\ \E sentryDNS \in Dsns, cacheDir \in {CachePath, <<"tmp">>} :
          Finish(newSentryOptions(Machine, sentryDNS, cacheDir),
                 "newSentryOptions", <<sentryDNS, cacheDir>>, 1)
    /\ UNCHANGED initCalls

Next ==
    \/ InitSentry
    \/ SetSentryReportScope
    \/ ReportSentryEvent
    \/ ReportSentryException
    \/ SentryCacheDir
    \/ GetProtectedHostname
    \/ GetApiOS
    \/ AppVersion
    \/ NewSentryOptions

Spec == Init /\ [][Next]_vars

-----------------------------------------------------------------------------
(* Properties *)

\* The positions of the calls of name in a trace.
Calls(tr, name) == {i \in DOMAIN tr : tr[i].call = name}

\* The value of the tag key in the scope, as a set: empty when the key is absent.
TagValues(key) == {client.tags[i][2] : i \in {k \in DOMAIN client.tags : client.tags[k][1] = key}}

\* C1: initSentry is non-fatal.  Every initSentry call makes one sentry_init
\* call; when that call returns non-zero exactly one line, the diagnostic, is
\* added to standard error, and none when it returns 0; in both outcomes
\* setSentryReportScope is then executed exactly once, to its end, and
\* initSentry returns to its caller.
C1_InitNonFatal ==
    [][initCalls' # initCalls =>
          /\ ret'.op = "initSentry"
          /\ ret'.value = "void"
          /\ Cardinality(Calls(trace', "sentry_init")) = 1
          /\ Cardinality(Calls(trace', "setSentryReportScope")) = 1
          /\ \A i \in Calls(trace', "sentry_init") :
                /\ trace'[i].result # 0 =>
                      stderrLines' = Append(stderrLines, "Failed to initialize sentry\n")
                /\ trace'[i].result = 0 => stderrLines' = stderrLines
                /\ \A j \in Calls(trace', "setSentryReportScope") \cup Calls(trace', "sentry_set_tag") : i < j
          /\ \A i \in Calls(trace', "QTextStream(stderr)"), j \in Calls(trace', "setSentryReportScope") : i < j
          /\ trace'[Len(trace')].call = "sentry_set_user"
          /\ client'.user # NoUser]_vars

\* C1 witness: an initSentry whose sentry_init failed has written the line
\* and has set the scope.
C1_Witness ==
    /\ ret.op = "initSentry"
    /\ Calls(trace, "QTextStream(stderr)") # {}
    /\ stderrLines # <<>>
    /\ client.options = NoOptions
    /\ Len(client.tags) = 5

\* The scope one setSentryReportScope call leaves on a client with an empty scope.
ScopeAfterOneCall ==
    setSentryReportScope(Return([Machine EXCEPT !.client = EmptyScopeClient], "void")).client

\* C2: setSentryReportScope is idempotent.  After any number of calls the tags
\* and the user are those a single call leaves, and no tag key holds more
\* than one value.
C2_ScopeIdempotent ==
    ret.op = "setSentryReportScope" =>
        /\ client.tags = ScopeAfterOneCall.tags
        /\ client.user = ScopeAfterOneCall.user
        /\ \A i, j \in DOMAIN client.tags : client.tags[i][1] = client.tags[j][1] => i = j
        /\ \A key \in {"OS", "Client", "Version", "HostArch", "server_name"} :
              Cardinality(TagValues(key)) = 1

\* C2 witness: the second of two successive setSentryReportScope calls.
C2_Witness ==
    /\ ret.op = "setSentryReportScope"
    /\ ret.nth = 2
    /\ Len(client.tags) = 5

\* C3: getApiOS is total.  It returns "macos" for MacOS, "windows" for
\* Windows and "linux" for Linux and for every other value of the OS family.
C3_ApiOsTotal ==
    ret.op = "getApiOS" =>
        ret.value = (IF osFamily = OS_MacOS THEN <<"m", "a", "c", "o", "s">>
                     ELSE IF osFamily = OS_Windows THEN <<"w", "i", "n", "d", "o", "w", "s">>
                     ELSE <<"l", "i", "n", "u", "x">>)

\* C3 witness: getApiOS on an OS family outside the three named ones.
C3_Witness ==
    /\ ret.op = "getApiOS"
    /\ osFamily \notin {OS_Linux, OS_MacOS, OS_Windows}
    /\ ret.value = <<"l", "i", "n", "u", "x">>

\* C4, as amended: sentryCacheDir returns <userDataDir>/sentry_cache on every
\* call, so two successive calls return the same path; a call never removes a
\* directory and leaves an already existing cache directory and its contents
\* unchanged; the directory exists after the call exactly when mkpath
\* reported that it does, which is not the case when its creation failed.
C4_CacheDirIdempotent ==
    [][ret'.op = "sentryCacheDir" =>
          /\ ret'.value = Append(userDataDir, "sentry_cache")
          /\ ret.op = "sentryCacheDir" => ret'.value = ret.value
          /\ dirs \subseteq dirs'
          /\ ret'.value \in dirs => dirs' = dirs /\ cacheFiles' = cacheFiles
          /\ Cardinality(Calls(trace', "QDir::mkpath")) = 1
          /\ \A i \in Calls(trace', "QDir::mkpath") :
                /\ trace'[i].args = <<ret'.value>>
                /\ trace'[i].result = (ret'.value \in dirs')]_vars

\* C4 witness: the second of two successive sentryCacheDir calls, on a cache
\* directory that exists and holds a file.
C4_Witness ==
    /\ ret.op = "sentryCacheDir"
    /\ ret.nth = 2
    /\ ret.value \in dirs
    /\ cacheFiles # {}

\* C4, as stated: the same path on every call, the directory exists after
\* every call, and an existing directory and its contents are left unchanged.
C4_AsStated ==
    [][ret'.op = "sentryCacheDir" =>
          /\ ret'.value = Append(userDataDir, "sentry_cache")
          /\ ret.op = "sentryCacheDir" => ret'.value = ret.value
          /\ ret'.value \in dirs'
          /\ ret'.value \in dirs => dirs' = dirs /\ cacheFiles' = cacheFiles]_vars

\* C5: newSentryOptions returns options whose breadcrumb cap is 50, whose DSN
\* and database path are the two arguments, and whose release is
\* appVersion(PROJECT_VER); the options initSentry hands to sentry_init have
\* the same cap.
C5_OptionsBuilt ==
    /\ ret.op = "newSentryOptions" =>
          /\ ret.value.max_breadcrumbs = 50
          /\ ret.value.dsn = ret.args[1]
          /\ ret.value.database_path = ret.args[2]
          /\ ret.value.release = appVersion(projectVer)
    /\ ret.op = "initSentry" =>
          \A i \in Calls(trace, "sentry_init") :
              /\ trace[i].args[1].max_breadcrumbs = 50
              /\ trace[i].args[1].release = appVersion(projectVer)

\* C5 witness: newSentryOptions called with an empty DSN and another cache
\* directory than the bridge's.
C5_Witness ==
    /\ ret.op = "newSentryOptions"
    /\ ret.args = <<"", <<"tmp">>>>
    /\ ret.value.max_breadcrumbs = 50

\* C6: appVersion(version) is getApiOS(), then "-bridge@", then version as
\* given, also when version holds the markers %1 or %2; on Linux
\* appVersion("1.2.3") is "linux-bridge@1.2.3".
C6_AppVersionFormat ==
    ret.op = "appVersion" =>
        /\ ret.value = getApiOS \o <<"-", "b", "r", "i", "d", "g", "e", "@">> \o ret.args[1]
        /\ (osFamily = OS_Linux /\ ret.args[1] = <<"1", ".", "2", ".", "3">>) =>
              ret.value = <<"l", "i", "n", "u", "x", "-", "b", "r", "i", "d", "g", "e", "@", "1", ".", "2", ".", "3">>

\* C6 witness: appVersion of a version that is the marker %1.
C6_Witness ==
    /\ ret.op = "appVersion"
    /\ ret.args[1] = <<"%", "1">>
    /\ Len(ret.value) > 2

\* C7: getProtectedHostname returns 64 characters, each a lowercase hex
\* digit, for every host name; for the empty host name they are the SHA-256
\* digest of the empty message; two successive calls return the same value.
C7_ProtectedHostnameShape ==
    /\ [](ret.op = "getProtectedHostname" =>
             /\ Len(ret.value) = 64
             /\ \A i \in 1..Len(ret.value) :
                   ret.value[i] \in {"0", "1", "2", "3", "4", "5", "6", "7", "8", "9",
                                     "a", "b", "c", "d", "e", "f"}
             /\ machineHostName = <<>> => ret.value = <<"e", "3", "b", "0", "c", "4", "4", "2", "9", "8", "f", "c", "1", "c", "1", "4",
                                        "9", "a", "f", "b", "f", "4", "c", "8", "9", "9", "6", "f", "b", "9", "2", "4",
                                        "2", "7", "a", "e", "4", "1", "e", "4", "6", "4", "9", "b", "9", "3", "4", "c",
                                        "a", "4", "9", "5", "9", "9", "1", "b", "7", "8", "5", "2", "b", "8", "5", "5">>)
    /\ [][ret.op = "getProtectedHostname" /\ ret'.op = "getProtectedHostname" =>
             ret'.value = ret.value]_vars

\* C7 witness: the second of two successive getProtectedHostname calls on a
\* machine with the empty host name.
C7_Witness ==
    /\ ret.op = "getProtectedHostname"
    /\ ret.nth = 2
    /\ machineHostName = <<>>

\* C8: within one initSentry the options are built once by newSentryOptions;
\* sentry_options_set_handler_path is called, once, exactly when the handler
\* path is not empty, after the options are built and before sentry_init;
\* sentry_init is called exactly once, with those options; and
\* setSentryReportScope starts only after sentry_init.
C8_InitOrder ==
    ret.op = "initSentry" =>
        /\ Cardinality(Calls(trace, "newSentryOptions")) = 1
        /\ Cardinality(Calls(trace, "sentry_options_new")) = 1
        /\ Cardinality(Calls(trace, "sentry_init")) = 1
        /\ Cardinality(Calls(trace, "sentry_options_set_handler_path")) =
              (IF handlerPath # "" THEN 1 ELSE 0)
        /\ \A n \in Calls(trace, "sentry_options_set_environment"),
              i \in Calls(trace, "sentry_init") :
              /\ n < i
              /\ \A h \in Calls(trace, "sentry_options_set_handler_path") :
                    n < h /\ h < i /\ trace[h].args = <<handlerPath>>
              /\ \A s \in Calls(trace, "setSentryReportScope") \cup Calls(trace, "sentry_set_tag")
                            \cup Calls(trace, "sentry_set_user") : i < s
              /\ trace[i].args[1].dsn = PROJECT_DSN_SENTRY
              /\ trace[i].args[1].database_path = Append(userDataDir, "sentry_cache")
              /\ trace[i].args[1].handler_path =
                    (IF handlerPath # "" THEN <<handlerPath>> ELSE <<>>)

\* C8 witness: an initSentry of a build that has a handler path.
C8_Witness ==
    /\ ret.op = "initSentry"
    /\ handlerPath # ""
    /\ Calls(trace, "sentry_options_set_handler_path") # {}

\* C9: reportSentryException captures exactly one event, with the level, the
\* logger "bridge-gui", the message and one exception entry of the given type
\* and value, added before the capture, and returns the identifier the
\* capture returned; reportSentryEvent captures the same event without an
\* exception entry.
C9_ReportSubmitsOneEvent ==
    /\ ret.op = "reportSentryException" =>
          /\ Cardinality(Calls(trace, "sentry_capture_event")) = 1
          /\ Cardinality(Calls(trace, "sentry_event_add_exception")) = 1
          /\ \A i \in Calls(trace, "sentry_capture_event") :
                /\ trace[i].args[1] =
                      [level |-> ret.args[1], logger |-> "bridge-gui", message |-> ret.args[2],
                       exceptions |-> <<[type |-> ret.args[3], value |-> ret.args[4]]>>]
                /\ trace[i].result = ret.value
                /\ \A j \in Calls(trace, "sentry_event_add_exception") : j < i
    /\ ret.op = "reportSentryEvent" =>
          /\ Cardinality(Calls(trace, "sentry_capture_event")) = 1
          /\ Calls(trace, "sentry_event_add_exception") = {}
          /\ \A i \in Calls(trace, "sentry_capture_event") :
                /\ trace[i].args[1] =
                      [level |-> ret.args[1], logger |-> "bridge-gui", message |-> ret.args[2],
                       exceptions |-> <<>>]
                /\ trace[i].result = ret.value

\* C9 witness: a reportSentryException on a running client, which gave the
\* event an identifier.
C9_Witness ==
    /\ ret.op = "reportSentryException"
    /\ client.options # NoOptions
    /\ ret.value \in Uuids

\* C10: once initSentry has run, whatever setSentryReportScope,
\* reportSentryEvent and reportSentryException calls follow, the scope holds
\* exactly the tag keys OS, Client, Version, HostArch and server_name; the
\* server_name tag and the user id are both getProtectedHostname() and not
\* the host name itself; and the two report functions change neither the
\* tags nor the user.
C10_ScopeFrame ==
    /\ [](initCalls > 0 =>
             /\ {client.tags[i][1] : i \in DOMAIN client.tags} =
                   {"OS", "Client", "Version", "HostArch", "server_name"}
             /\ Len(client.tags) = 5
             /\ TagValues("server_name") = {getProtectedHostname}
             /\ client.user = << << <<"id", getProtectedHostname>> >> >>
             /\ machineHostName \notin TagValues("server_name"))
    /\ [][ret'.op \in {"reportSentryEvent", "reportSentryException"} =>
             client'.tags = client.tags /\ client'.user = client.user]_vars

\* C10 witness: a report made after initSentry on a machine that has a host name.
C10_Witness ==
    /\ initCalls > 0
    /\ ret.op \in {"reportSentryEvent", "reportSentryException"}
    /\ machineHostName # <<>>
    /\ Len(client.tags) = 5

====
